---- MODULE Spec2Model ----
(***************************************************************************)
(* The room concurrency engine of the chat server: ChatRoom (chat_room.rs) *)
(* and UserSessionHandle (user_session_handle.rs).                         *)
(*                                                                         *)
(* Every connection task is a session.  A room is an Arc<Mutex<ChatRoom>>: *)
(* the &mut self methods of ChatRoom (join, leave, send_message,           *)
(* record_message) can only be called through the mutex guard, so each of  *)
(* them needs the room's mutex free and runs inside one critical section.  *)
(* UserSessionHandle::send_message is split where the code splits it: the  *)
(* call, lock().await, record_message with the guard dropped, and the      *)
(* broadcast send with the return.  join is split at its subscribe() call, *)
(* because the bus is written by UserSessionHandle::send_message outside   *)
(* the mutex; leave, ChatRoom::send_message and a direct record_message    *)
(* read and write the bus in one place and are one step each.              *)
(*                                                                         *)
(* tokio::sync::broadcast is modelled by its documented behaviour: send    *)
(* fails iff there is no live receiver and never blocks; a receiver sees   *)
(* the values sent after it subscribed; the channel retains the last       *)
(* BROADCAST_CHANNEL_CAPACITY values and a receiver that is further behind *)
(* gets Lagged and resumes at the oldest retained value.  (tokio may       *)
(* retain more than the capacity asked for; a receiver then starts to miss *)
(* events later than in this model, never earlier.)                        *)
(*                                                                         *)
(* Message contents are msg0, msg1, ... in the order of the calls, as in   *)
(* test_limit, so that every message of a run is distinct.                 *)
(*                                                                         *)
(* user_registry.rs is not among the sources; UserRegistry is modelled     *)
(* from its contract (a session count per user id).                        *)
(*                                                                         *)
(* main() (main.rs) accepts connections, spawns one task per connection    *)
(* into a JoinSet, sends the quit signal on ctrl-c and waits for the tasks. *)
(* session.rs is not among the sources either; a connection task is        *)
(* modelled from its contract (it polls its quit receiver, and on the      *)
(* signal or a disconnect it releases its subscription, calls leave and    *)
(* finishes).  ctrl_c() and accept() are taken to return Ok.               *)
(*                                                                         *)
(* origin, seen, txLog, appended and serial record what happened; no step  *)
(* of the program reads them.                                              *)
(***************************************************************************)
EXTENDS Integers, Sequences, FiniteSets, TLC

\* ------------------------------------------------------------- constants
MAX_HISTORY == 10

\* (mutation of BROADCAST_CHANNEL_CAPACITY: the channel is created with MAX_HISTORY)
WrongCapacity == MAX_HISTORY

BROADCAST_CHANNEL_CAPACITY == 100

\* ---------------------------------------------------------------- bounds
\* Budgets of the general specification Spec.
\* Spec: every session on its rooms.  A run makes at most MaxCalls calls of
\* join, send_message (of the room or of a handle), record_message, recv and
\* drop; leave is bounded by join.
MaxCalls == 3
\* SpecHist: S1 works on room A while S3 records messages in it, HistRecords
\* of them beside the calls: enough to overflow the history.
HistCalls == 3
HistRecords == 11
\* SpecLag: a run starts after S1 sent LagPrefill messages that S2 did not
\* take, and makes LagCalls calls.
LagPrefill == 99
LagCalls == 2
\* SpecReplay: a run starts after S1 joined room A, and makes ReplayCalls calls.
ReplayCalls == 4
\* SpecServer: main() and its connection tasks; a run makes ServerCalls calls
\* of join and of a handle's send_message.
ServerCalls == 3

Rooms == {"A", "B"}
Sessions == {"S1", "S2", "S3"}
Users == {"U1", "U2"}
\* S1 and S2 are two connections of the same user.
UserOf == [s \in Sessions |-> IF s = "S3" THEN "U2" ELSE "U1"]
\* the rooms a session's task works on
JoinRooms == [s \in Sessions |-> IF s = "S3" THEN {"A", "B"} ELSE {"A"}]

NoRoom == "none"
NoMsg == [room |-> NoRoom, user_id |-> "none", content |-> -1]
NoRx == [room |-> NoRoom, next |-> 0]
NoSnapshot == [history |-> <<>>, user_ids |-> {}]

VARIABLES
    registry,   \* registry[r][u]: ChatRoom.user_registry, sessions of u in r
    history,    \* history[r]: ChatRoom.history, oldest first
    bus,        \* bus[r]: the events the room's broadcast channel accepted
    lock,       \* lock[r]: the tasks holding the room's mutex guard
    pc,         \* pc[s]: where task s is
    at,         \* at[s]: the room of the call task s is in
    msg,        \* msg[s]: message_event of the call task s is in
    handle,     \* handle[s]: room of the UserSessionHandle s holds
    rx,         \* rx[s]: the broadcast::Receiver s holds: room, next index
    lost,       \* lost[s]: events s's receiver skipped (sum of Lagged(n))
    result,     \* result[s]: how the last call of s ended: Ok, or Err
    txLog,      \* txLog[r]: every broadcast_tx.send call: event, outcome
    appended,   \* appended[r]: every message pushed to the history, in order
    serial,     \* serial[r]: registry and history of the operations run one at a time
    nextContent,\* the content of the next message (msg0, msg1, ...)
    budget,     \* how many more calls the run makes
    origin,     \* origin[c + 1]: the call that made message c: its path, its task
    seen,       \* seen[s]: the events s took from the receiver it holds
    snapshot,   \* snapshot[s]: what get_history() and get_unique_user_ids()
                \*   returned to s after its join
    main,       \* where main() is: listening, draining, or done
    task,       \* task[s]: the connection task of s in main's JoinSet
    quit_tx,    \* the number of quit_tx.send(()) calls
    quit_rx     \* quit_rx[s]: the first quit signal the receiver of task s gets

\* the state of main() and of its connection tasks
srvVars == <<main, task, quit_tx, quit_rx>>

vars == <<registry, history, bus, lock, pc, at, msg, handle, rx, lost, result,
          txLog, appended, serial, nextContent, budget, origin, seen, snapshot,
          main, task, quit_tx, quit_rx>>

\* ---------------------------------------------------------------- events
UserMessageBroadcastEvent(r, u, c) == [room |-> r, user_id |-> u, content |-> c]
UserMessage(m) == [kind |-> "UserMessage", ev |-> m]
RoomParticipation(r, u, st) ==
    [kind |-> "RoomParticipation", ev |-> [user_id |-> u, room |-> r, status |-> st]]

\* the call that made a message: UserSessionHandle::send_message of the handle
\* of session s, or a method of the room ("room": ChatRoom::send_message,
\* "record": record_message called directly)
Origin(via, s) == [via |-> via, by |-> s]
NoSession == "none"

\* the last n elements of a sequence (all of it when it is shorter)
LastN(seq, n) == SubSeq(seq, IF Len(seq) > n THEN Len(seq) - n + 1 ELSE 1, Len(seq))

\* the places of x in a sequence
Places(seq, x) == {i \in DOMAIN seq : seq[i] = x}

\* ---------------------------------------------------------- UserRegistry
RegistryInsert(reg, u) == [reg EXCEPT ![u] = @ + 1]
InsertIsFirst(reg, u) == RegistryInsert(reg, u)[u] = 1
RegistryRemove(reg, u) == [reg EXCEPT ![u] = IF @ > 0 THEN @ - 1 ELSE 0]
RemoveIsLast(reg, u) == reg[u] > 0 /\ RegistryRemove(reg, u)[u] = 0
UniqueUserIds(reg) == {u \in Users : reg[u] > 0}

\* -------------------------------------------------------------- ChatRoom
\* (mutation of record_message: the eviction is left out)
record_message_NoEvict(h, m) == Append(h, m)

\* (mutation of record_message: push_front in place of push_back)
record_message_PushFront(h, m) ==
    LET pushed == <<m>> \o h
    IN  IF Len(pushed) > MAX_HISTORY THEN Tail(pushed) ELSE pushed

\* push_back, then pop_front when the length exceeds MAX_HISTORY
record_message(h, m) ==
    LET pushed == Append(h, m)
    IN  IF Len(pushed) > MAX_HISTORY THEN Tail(pushed) ELSE pushed

\* (mutation of send_message_history: pop_back in place of pop_front)
send_message_history_PopBack(h, m) ==
    LET pushed == Append(h, m)
    IN  IF Len(pushed) > MAX_HISTORY THEN SubSeq(pushed, 1, MAX_HISTORY) ELSE pushed

\* ChatRoom::send_message: push_back, then pop_front over MAX_HISTORY
send_message_history(h, m) ==
    LET pushed == Append(h, m)
    IN  IF Len(pushed) > MAX_HISTORY THEN Tail(pushed) ELSE pushed

get_history(r) == history[r]

\* ChatRoom::get_unique_user_ids delegates to the registry
get_unique_user_ids(r) == UniqueUserIds(registry[r])

\* ------------------------------------------------------- broadcast channel
ReceiverCount(r) == Cardinality({s \in Sessions : rx[s].room = r})

\* broadcast::Sender::send: Err(SendError) iff there is no receiver
SendOk(r) == ReceiverCount(r) > 0

\* the index of the oldest value the channel of r still retains
OldestRetained(r) ==
    IF Len(bus[r]) > BROADCAST_CHANNEL_CAPACITY
    THEN Len(bus[r]) - BROADCAST_CHANNEL_CAPACITY + 1 ELSE 1

\* the number of values sent that receiver s has not taken yet
Pending(s) == IF rx[s] = NoRx THEN 0 ELSE Len(bus[rx[s].room]) - rx[s].next + 1

\* the number of values receiver s has not taken and the channel dropped
Missed(s) ==
    IF rx[s] = NoRx \/ rx[s].next >= OldestRetained(rx[s].room) THEN 0
    ELSE OldestRetained(rx[s].room) - rx[s].next

\* (mutation of subscribe: the receiver starts after the next event, as when
\* join subscribes after its broadcast)
subscribe_AfterNext(r) == [room |-> r, next |-> Len(bus[r]) + 2]

\* broadcast_tx.subscribe(): a receiver of the values sent after this call
subscribe(r) == [room |-> r, next |-> Len(bus[r]) + 1]

\* (mutation of BusAfterSend: the event is sent twice)
BusAfterSend_Twice(r, ev, ok) ==
    IF ok THEN [bus EXCEPT ![r] = Append(Append(@, ev), ev)] ELSE bus

\* bus and txLog after broadcast_tx.send(ev) on room r, with `ok` its outcome
BusAfterSend(r, ev, ok) == IF ok THEN [bus EXCEPT ![r] = Append(@, ev)] ELSE bus
TxLogAfterSend(r, ev, ok) == [txLog EXCEPT ![r] = Append(@, [ev |-> ev, ok |-> ok])]

\* ------------------------------------------------------------------ mutex
\* (mutation of MutexFree: lock() never waits)
MutexFree_Always(r) == TRUE

\* (mutation of MutexFree: one lock for all the rooms)
MutexFree_Global(r) == \A q \in Rooms : lock[q] = {}

\* tokio::sync::Mutex::lock().await completes only when nobody holds the guard
MutexFree(r) == lock[r] = {}

\* the room's registry and history after operation op, run on its own
ApplyOp(st, op) ==
    CASE op.op = "join" -> [st EXCEPT !.reg = RegistryInsert(@, op.user_id)]
      [] op.op = "leave" -> [st EXCEPT !.reg = RegistryRemove(@, op.user_id)]
      [] OTHER -> [st EXCEPT !.hist = record_message(@, op.msg)]

Op(name, u, m) == [op |-> name, user_id |-> u, msg |-> m]

\* the lock is acquired for operation op; serial[r] runs the operations one
\* at a time in the order in which they acquired the lock
Acquire(s, r, op) ==
    /\ MutexFree(r)
    /\ lock' = [lock EXCEPT ![r] = @ \cup {s}]
    /\ serial' = [serial EXCEPT ![r] = ApplyOp(@, op)]

\* (mutation of Release: the guard is leaked, the mutex stays locked)
Release_Never(s, r) == lock' = lock

\* the guard is dropped
Release(s, r) == lock' = [lock EXCEPT ![r] = @ \ {s}]

\* a &mut self method called and returned inside one critical section
Locked(s, r, op) ==
    /\ MutexFree(r)
    /\ serial' = [serial EXCEPT ![r] = ApplyOp(@, op)]
    /\ UNCHANGED lock

\* ------------------------------------------------------------------- Init
InitRoom ==
    /\ registry = [r \in Rooms |-> [u \in Users |-> 0]]
    /\ history = [r \in Rooms |-> <<>>]
    /\ bus = [r \in Rooms |-> <<>>]
    /\ lock = [r \in Rooms |-> {}]
    /\ txLog = [r \in Rooms |-> <<>>]
    /\ appended = [r \in Rooms |-> <<>>]
    /\ serial = [r \in Rooms |-> [reg |-> [u \in Users |-> 0], hist |-> <<>>]]

InitSessions ==
    /\ pc = [s \in Sessions |-> "idle"]
    /\ at = [s \in Sessions |-> NoRoom]
    /\ msg = [s \in Sessions |-> NoMsg]
    /\ handle = [s \in Sessions |-> NoRoom]
    /\ rx = [s \in Sessions |-> NoRx]
    /\ lost = [s \in Sessions |-> 0]
    /\ result = [s \in Sessions |-> "none"]
    /\ nextContent = 0
    /\ origin = <<>>
    /\ seen = [s \in Sessions |-> <<>>]
    /\ snapshot = [s \in Sessions |-> NoSnapshot]

\* main() is in its accept loop and has spawned the task of every session
InitServing ==
    /\ main = "listening"
    /\ task = [s \in Sessions |-> "running"]
    /\ quit_tx = 0
    /\ quit_rx = [s \in Sessions |-> 1]

Init ==
    /\ InitRoom
    /\ InitSessions
    /\ InitServing
    /\ budget = [calls |-> MaxCalls, records |-> 0]

\* ------------------------------------------------------------------- join
\* the caller locks the room and calls ChatRoom::join(&mut self, ..), which
\* runs up to broadcast_tx.clone(), broadcast_tx.subscribe(), UserSessionHandle::new
JoinSubscribe(s, r) ==
    /\ pc[s] = "idle"
    /\ handle[s] = NoRoom
    /\ rx[s] = NoRx
    /\ budget.calls > 0
    /\ Acquire(s, r, Op("join", UserOf[s], NoMsg))
    /\ rx' = [rx EXCEPT ![s] = subscribe(r)]
    /\ pc' = [pc EXCEPT ![s] = "join_subscribed"]
    /\ at' = [at EXCEPT ![s] = r]
    /\ result' = [result EXCEPT ![s] = "none"]
    /\ budget' = [budget EXCEPT !.calls = @ - 1]
    /\ seen' = [seen EXCEPT ![s] = <<>>]
    /\ snapshot' = [snapshot EXCEPT ![s] = NoSnapshot]
    /\ UNCHANGED <<registry, history, bus, msg, handle, lost,
                   txLog, appended, nextContent, origin, srvVars>>

\* (mutation of JoinBroadcasts: every join broadcasts Joined)
JoinBroadcasts_Always(first) == TRUE

\* (mutation of IgnoreSendError: the send's error becomes the call's error)
IgnoreSendError_Propagate(ok) == IF ok THEN "Ok" ELSE "Err"

\* (mutation of leave_registry: the remove call is left out)
leave_registry_None(reg, u) == reg

\* (mutation of HSendResult: the send's error is dropped)
HSendResult_Swallow(ok) == "Ok"

\* join calls self.user_registry.insert(&user_session_handle)
join_registry(reg, u) == RegistryInsert(reg, u)

\* if user_registry.insert(..) { let _ = broadcast_tx.send(Joined) }
JoinBroadcasts(first) == first

\* let _ = broadcast_tx.send(..): the send's outcome is dropped, the call goes on
IgnoreSendError(ok) == "Ok"

\* user_registry.insert, the conditional Joined broadcast, the return of
\* (broadcast_rx, user_session_handle), and the guard dropped by the caller
JoinRegister(s) ==
    /\ pc[s] = "join_subscribed"
    /\ LET r == at[s]
           u == UserOf[s]
           ev == RoomParticipation(r, u, "Joined")
       IN  /\ registry' = [registry EXCEPT ![r] = RegistryInsert(@, u)]
           /\ IF JoinBroadcasts(InsertIsFirst(registry[r], u))
              THEN /\ bus' = BusAfterSend(r, ev, SendOk(r))
                   /\ txLog' = TxLogAfterSend(r, ev, SendOk(r))
              ELSE UNCHANGED <<bus, txLog>>
           /\ result' = [result EXCEPT ![s] =
                  IF JoinBroadcasts(InsertIsFirst(registry[r], u))
                  THEN IgnoreSendError(SendOk(r)) ELSE "Ok"]
           /\ handle' = [handle EXCEPT ![s] = r]
           /\ Release(s, r)
    /\ pc' = [pc EXCEPT ![s] = "idle"]
    /\ at' = [at EXCEPT ![s] = NoRoom]
    /\ UNCHANGED <<history, msg, rx, lost, appended, serial, nextContent, budget,
                   origin, seen, snapshot, srvVars>>

\* ------------------------------------------------------------------ leave
\* leave calls self.user_registry.remove(&user_session_handle)
leave_registry(reg, u) == RegistryRemove(reg, u)

\* (mutation of LeaveBroadcasts: every leave broadcasts Left)
LeaveBroadcasts_Always(last) == TRUE

\* if user_registry.remove(..) { let _ = broadcast_tx.send(Left) }
LeaveBroadcasts(last) == last

\* the caller locks the handle's room and calls ChatRoom::leave(&mut self, handle)
Leave(s) ==
    /\ pc[s] = "idle"
    /\ handle[s] # NoRoom
    /\ LET r == handle[s]
           u == UserOf[s]
           ev == RoomParticipation(r, u, "Left")
       IN  /\ Locked(s, r, Op("leave", u, NoMsg))
           /\ registry' = [registry EXCEPT ![r] = leave_registry(@, u)]
           /\ IF LeaveBroadcasts(RemoveIsLast(registry[r], u))
              THEN /\ bus' = BusAfterSend(r, ev, SendOk(r))
                   /\ txLog' = TxLogAfterSend(r, ev, SendOk(r))
              ELSE UNCHANGED <<bus, txLog>>
           /\ result' = [result EXCEPT ![s] =
                  IF LeaveBroadcasts(RemoveIsLast(registry[r], u))
                  THEN IgnoreSendError(SendOk(r)) ELSE "Ok"]
           /\ handle' = [handle EXCEPT ![s] = NoRoom]
    /\ UNCHANGED <<history, pc, at, msg, rx, lost, appended, nextContent, budget,
                   origin, seen, snapshot, srvVars>>

\* -------------------------------------------------- ChatRoom::send_message
\* (mutation of SendMessage: the send comes first, and when it fails the call
\* returns with nothing appended)
SendMessage_SendFirst(s, r) ==
    /\ pc[s] = "idle"
    /\ budget.calls > 0
    /\ LET m == UserMessageBroadcastEvent(r, UserOf[s], nextContent)
       IN  /\ Locked(s, r, Op("append", UserOf[s], m))
           /\ bus' = BusAfterSend(r, UserMessage(m), SendOk(r))
           /\ txLog' = TxLogAfterSend(r, UserMessage(m), SendOk(r))
           /\ IF SendOk(r)
              THEN /\ history' = [history EXCEPT ![r] = send_message_history(@, m)]
                   /\ appended' = [appended EXCEPT ![r] = Append(@, m)]
              ELSE UNCHANGED <<history, appended>>
    /\ nextContent' = nextContent + 1
    /\ origin' = Append(origin, Origin("room", NoSession))
    /\ budget' = [budget EXCEPT !.calls = @ - 1]
    /\ UNCHANGED <<registry, pc, at, msg, handle, rx, lost, result, seen, snapshot, srvVars>>

\* a task locks room r and calls send_message(user_id, content)
SendMessage(s, r) ==
    /\ pc[s] = "idle"
    /\ budget.calls > 0
    /\ LET m == UserMessageBroadcastEvent(r, UserOf[s], nextContent)
       IN  /\ Locked(s, r, Op("append", UserOf[s], m))
           /\ history' = [history EXCEPT ![r] = send_message_history(@, m)]
           /\ appended' = [appended EXCEPT ![r] = Append(@, m)]
           /\ bus' = BusAfterSend(r, UserMessage(m), SendOk(r))
           /\ txLog' = TxLogAfterSend(r, UserMessage(m), SendOk(r))
    /\ nextContent' = nextContent + 1
    /\ origin' = Append(origin, Origin("room", NoSession))
    /\ budget' = [budget EXCEPT !.calls = @ - 1]
    /\ UNCHANGED <<registry, pc, at, msg, handle, rx, lost, result, seen, snapshot, srvVars>>

\* ------------------------------------------------ ChatRoom::record_message
\* (mutation of RecordMessage: record_message also hands the message to the bus)
RecordMessage_Broadcasts(s, r) ==
    /\ pc[s] = "idle"
    /\ budget.records + budget.calls > 0
    /\ LET m == UserMessageBroadcastEvent(r, UserOf[s], nextContent)
       IN  /\ Locked(s, r, Op("append", UserOf[s], m))
           /\ history' = [history EXCEPT ![r] = record_message(@, m)]
           /\ appended' = [appended EXCEPT ![r] = Append(@, m)]
           /\ bus' = BusAfterSend(r, UserMessage(m), SendOk(r))
           /\ txLog' = TxLogAfterSend(r, UserMessage(m), SendOk(r))
    /\ nextContent' = nextContent + 1
    /\ budget' = IF budget.records > 0 THEN [budget EXCEPT !.records = @ - 1]
                                     ELSE [budget EXCEPT !.calls = @ - 1]
    /\ origin' = Append(origin, Origin("record", NoSession))
    /\ UNCHANGED <<registry, pc, at, msg, handle, rx, lost, result,
                   seen, snapshot, srvVars>>

\* a task locks room r and calls record_message(&message)
RecordMessage(s, r) ==
    /\ pc[s] = "idle"
    /\ budget.records + budget.calls > 0
    /\ LET m == UserMessageBroadcastEvent(r, UserOf[s], nextContent)
       IN  /\ Locked(s, r, Op("append", UserOf[s], m))
           /\ history' = [history EXCEPT ![r] = record_message(@, m)]
           /\ appended' = [appended EXCEPT ![r] = Append(@, m)]
    /\ nextContent' = nextContent + 1
    /\ budget' = IF budget.records > 0 THEN [budget EXCEPT !.records = @ - 1]
                                     ELSE [budget EXCEPT !.calls = @ - 1]
    /\ origin' = Append(origin, Origin("record", NoSession))
    /\ UNCHANGED <<registry, bus, pc, at, msg, handle, rx, lost, result, txLog,
                   seen, snapshot, srvVars>>

\* ----------------------------------------- UserSessionHandle::send_message
\* the call: message_event is built from the handle's room and user id, and
\* the task waits at self.chat_room.lock().await
HSendCall(s) ==
    /\ pc[s] = "idle"
    /\ handle[s] # NoRoom
    /\ budget.calls > 0
    /\ pc' = [pc EXCEPT ![s] = "hsend_wait"]
    /\ at' = [at EXCEPT ![s] = handle[s]]
    /\ msg' = [msg EXCEPT ![s] = UserMessageBroadcastEvent(handle[s], UserOf[s], nextContent)]
    /\ result' = [result EXCEPT ![s] = "none"]
    /\ nextContent' = nextContent + 1
    /\ budget' = [budget EXCEPT !.calls = @ - 1]
    /\ origin' = Append(origin, Origin("handle", s))
    /\ UNCHANGED <<registry, history, bus, lock, handle, rx, lost, txLog,
                   appended, serial, seen, snapshot, srvVars>>

\* let mut room = self.chat_room.lock().await
HSendLock(s) ==
    /\ pc[s] = "hsend_wait"
    /\ Acquire(s, at[s], Op("append", msg[s].user_id, msg[s]))
    /\ pc' = [pc EXCEPT ![s] = "hsend_locked"]
    /\ UNCHANGED <<registry, history, bus, at, msg, handle, rx, lost, result,
                   txLog, appended, nextContent, budget, origin, seen, snapshot, srvVars>>

\* (mutation of HSendRecord: the guard is dropped with nothing recorded)
HSendRecord_NoRecord(s) ==
    /\ pc[s] = "hsend_locked"
    /\ Release(s, at[s])
    /\ pc' = [pc EXCEPT ![s] = "hsend_bcast"]
    /\ UNCHANGED <<registry, history, appended, bus, at, msg, handle, rx, lost,
                   result, txLog, serial, nextContent, budget, origin, seen, snapshot,
                   srvVars>>

\* (mutation of HSendRecord: the guard lives to the end of send_message)
HSendRecord_KeepGuard(s) ==
    /\ pc[s] = "hsend_locked"
    /\ LET r == at[s]
       IN  /\ history' = [history EXCEPT ![r] = record_message(@, msg[s])]
           /\ appended' = [appended EXCEPT ![r] = Append(@, msg[s])]
    /\ pc' = [pc EXCEPT ![s] = "hsend_bcast"]
    /\ UNCHANGED <<registry, bus, lock, at, msg, handle, rx, lost, result, txLog,
                   serial, nextContent, budget, origin, seen, snapshot, srvVars>>

\* room.record_message(&message_event), and the guard dropped at the block's end
HSendRecord(s) ==
    /\ pc[s] = "hsend_locked"
    /\ LET r == at[s]
       IN  /\ history' = [history EXCEPT ![r] = record_message(@, msg[s])]
           /\ appended' = [appended EXCEPT ![r] = Append(@, msg[s])]
           /\ Release(s, r)
    /\ pc' = [pc EXCEPT ![s] = "hsend_bcast"]
    /\ UNCHANGED <<registry, bus, at, msg, handle, rx, lost, result, txLog,
                   serial, nextContent, budget, origin, seen, snapshot, srvVars>>

\* .context(..)?; Ok(()): the send's error is the call's error
HSendResult(ok) == IF ok THEN "Ok" ELSE "Err"

\* self.broadcast_tx.send(Event::UserMessage(message_event)), and the return
HSendBroadcast(s) ==
    /\ pc[s] = "hsend_bcast"
    /\ LET r == at[s]
       IN  /\ bus' = BusAfterSend(r, UserMessage(msg[s]), SendOk(r))
           /\ txLog' = TxLogAfterSend(r, UserMessage(msg[s]), SendOk(r))
           /\ result' = [result EXCEPT ![s] = HSendResult(SendOk(r))]
    /\ pc' = [pc EXCEPT ![s] = "idle"]
    /\ at' = [at EXCEPT ![s] = NoRoom]
    /\ msg' = [msg EXCEPT ![s] = NoMsg]
    /\ UNCHANGED <<registry, history, lock, handle, rx, lost, appended,
                   serial, nextContent, budget, origin, seen, snapshot, srvVars>>

\* ------------------------------------------------------------- subscribers
\* broadcast::Receiver::recv on the receiver join returned (not before join
\* returned it): the next value, or Lagged(n) when the channel no longer
\* retains it
Recv(s) ==
    /\ rx[s] # NoRx
    /\ pc[s] \notin {"join_subscribed"}
    /\ budget.calls > 0
    /\ rx[s].next <= Len(bus[rx[s].room])
    /\ IF rx[s].next < OldestRetained(rx[s].room)
       THEN /\ lost' = [lost EXCEPT ![s] = @ + (OldestRetained(rx[s].room) - rx[s].next)]
            /\ rx' = [rx EXCEPT ![s].next = OldestRetained(rx[s].room)]
            /\ UNCHANGED seen
       ELSE /\ rx' = [rx EXCEPT ![s].next = @ + 1]
            /\ seen' = [seen EXCEPT ![s] = Append(@, bus[rx[s].room][rx[s].next])]
            /\ UNCHANGED lost
    /\ budget' = [budget EXCEPT !.calls = @ - 1]
    /\ UNCHANGED <<registry, history, bus, lock, pc, at, msg, handle, result,
                   txLog, appended, serial, nextContent, origin, snapshot, srvVars>>

\* the task drops the receiver join returned (it releases its subscription)
DropReceiver(s) ==
    /\ rx[s] # NoRx
    /\ pc[s] \notin {"join_subscribed"}
    /\ budget.calls > 0
    /\ rx' = [rx EXCEPT ![s] = NoRx]
    /\ seen' = [seen EXCEPT ![s] = <<>>]
    /\ budget' = [budget EXCEPT !.calls = @ - 1]
    /\ UNCHANGED <<registry, history, bus, lock, pc, at, msg, handle, lost,
                   result, txLog, appended, serial, nextContent, origin, snapshot, srvVars>>

\* ------------------------------------------------------------------- Next
\* the tasks in Actors call join, leave, send_message, recv and drop on their
\* rooms; the tasks in Recorders call record_message on theirs
NextOver(Actors, Recorders, RoomsOf) ==
    \/ \E s \in Actors : \E r \in RoomsOf[s] : JoinSubscribe(s, r)
    \/ \E s \in Actors : JoinRegister(s)
    \/ \E s \in Actors : Leave(s)
    \/ \E s \in Actors : \E r \in RoomsOf[s] : SendMessage(s, r)
    \/ \E s \in Recorders : \E r \in RoomsOf[s] : RecordMessage(s, r)
    \/ \E s \in Actors : HSendCall(s)
    \/ \E s \in Actors : HSendLock(s)
    \/ \E s \in Actors : HSendRecord(s)
    \/ \E s \in Actors : HSendBroadcast(s)
    \/ \E s \in Actors : Recv(s)
    \/ \E s \in Actors : DropReceiver(s)

Next == NextOver(Sessions, Sessions, JoinRooms)

Spec == Init /\ [][Next]_vars

\* ------------------------------------------------- the history overflowing
HistRooms == [s \in Sessions |-> {"A"}]

InitHist ==
    /\ InitRoom
    /\ InitSessions
    /\ InitServing
    /\ budget = [calls |-> HistCalls, records |-> HistRecords]

NextHist == NextOver({"S1"}, {"S3"}, HistRooms)

SpecHist == InitHist /\ [][NextHist]_vars

\* --------------------------------------------------- a lagging subscriber
\* The state after: S1 joins room A, S2 joins room A, S1 sends LagPrefill
\* messages through its handle and takes each of them from its receiver,
\* S2 takes none.

LagMessages == [i \in 1..LagPrefill |-> UserMessageBroadcastEvent("A", "U1", i - 1)]
LagEvents ==
    <<RoomParticipation("A", "U1", "Joined")>> \o [i \in 1..LagPrefill |-> UserMessage(LagMessages[i])]

InitLag ==
    /\ registry = [r \in Rooms |-> [u \in Users |-> IF r = "A" /\ u = "U1" THEN 2 ELSE 0]]
    /\ history = [r \in Rooms |-> IF r = "A" THEN LastN(LagMessages, MAX_HISTORY) ELSE <<>>]
    /\ bus = [r \in Rooms |-> IF r = "A" THEN LagEvents ELSE <<>>]
    /\ lock = [r \in Rooms |-> {}]
    /\ txLog = [r \in Rooms |-> IF r = "A"
                   THEN [i \in 1..Len(LagEvents) |-> [ev |-> LagEvents[i], ok |-> TRUE]]
                   ELSE <<>>]
    /\ appended = [r \in Rooms |-> IF r = "A" THEN LagMessages ELSE <<>>]
    /\ serial = [r \in Rooms |-> [reg |-> registry[r], hist |-> history[r]]]
    /\ pc = [s \in Sessions |-> "idle"]
    /\ at = [s \in Sessions |-> NoRoom]
    /\ msg = [s \in Sessions |-> NoMsg]
    /\ handle = [s \in Sessions |-> IF s = "S3" THEN NoRoom ELSE "A"]
    /\ rx = [s \in Sessions |->
               CASE s = "S1" -> [room |-> "A", next |-> Len(LagEvents) + 1]
                 [] s = "S2" -> [room |-> "A", next |-> 2]
                 [] OTHER -> NoRx]
    /\ lost = [s \in Sessions |-> 0]
    /\ result = [s \in Sessions |-> IF s = "S3" THEN "none" ELSE "Ok"]
    /\ nextContent = LagPrefill
    /\ origin = [i \in 1..LagPrefill |-> Origin("handle", "S1")]
    /\ seen = [s \in Sessions |-> IF s = "S1" THEN LagEvents ELSE <<>>]
    /\ snapshot = [s \in Sessions |-> NoSnapshot]
    /\ InitServing
    /\ budget = [calls |-> LagCalls, records |-> 0]

SpecLag == InitLag /\ [][Next]_vars

\* ------------------------------------------------ replay to a new session
\* a task that joined room r locks it and calls get_history(&self): a clone
GetHistory(s) ==
    /\ pc[s] = "idle"
    /\ handle[s] # NoRoom
    /\ budget.calls > 0
    /\ MutexFree(handle[s])
    /\ snapshot' = [snapshot EXCEPT ![s].history = get_history(handle[s])]
    /\ budget' = [budget EXCEPT !.calls = @ - 1]
    /\ UNCHANGED <<registry, history, bus, lock, pc, at, msg, handle, rx, lost, result,
                   txLog, appended, serial, nextContent, origin, seen, srvVars>>

\* a task that joined room r locks it and calls get_unique_user_ids(&self)
GetUniqueUserIds(s) ==
    /\ pc[s] = "idle"
    /\ handle[s] # NoRoom
    /\ budget.calls > 0
    /\ MutexFree(handle[s])
    /\ snapshot' = [snapshot EXCEPT ![s].user_ids = get_unique_user_ids(handle[s])]
    /\ budget' = [budget EXCEPT !.calls = @ - 1]
    /\ UNCHANGED <<registry, history, bus, lock, pc, at, msg, handle, rx, lost, result,
                   txLog, appended, serial, nextContent, origin, seen, srvVars>>

\* The state after S1 joined room A.
InitReplay ==
    /\ registry = [r \in Rooms |-> [u \in Users |-> IF r = "A" /\ u = "U1" THEN 1 ELSE 0]]
    /\ history = [r \in Rooms |-> <<>>]
    /\ bus = [r \in Rooms |-> IF r = "A" THEN <<RoomParticipation("A", "U1", "Joined")>> ELSE <<>>]
    /\ lock = [r \in Rooms |-> {}]
    /\ txLog = [r \in Rooms |-> IF r = "A"
                   THEN <<[ev |-> RoomParticipation("A", "U1", "Joined"), ok |-> TRUE]>>
                   ELSE <<>>]
    /\ appended = [r \in Rooms |-> <<>>]
    /\ serial = [r \in Rooms |-> [reg |-> registry[r], hist |-> <<>>]]
    /\ pc = [s \in Sessions |-> "idle"]
    /\ at = [s \in Sessions |-> NoRoom]
    /\ msg = [s \in Sessions |-> NoMsg]
    /\ handle = [s \in Sessions |-> IF s = "S1" THEN "A" ELSE NoRoom]
    /\ rx = [s \in Sessions |-> IF s = "S1" THEN [room |-> "A", next |-> 1] ELSE NoRx]
    /\ lost = [s \in Sessions |-> 0]
    /\ result = [s \in Sessions |-> IF s = "S1" THEN "Ok" ELSE "none"]
    /\ nextContent = 0
    /\ origin = <<>>
    /\ seen = [s \in Sessions |-> <<>>]
    /\ snapshot = [s \in Sessions |-> NoSnapshot]
    /\ InitServing
    /\ budget = [calls |-> ReplayCalls, records |-> 0]

\* S1 goes on in room A; S3 joins it, records in it, and reads it
NextReplay ==
    \/ NextOver({"S1", "S3"}, {"S3"}, HistRooms)
    \/ GetHistory("S3")
    \/ GetUniqueUserIds("S3")

SpecReplay == InitReplay /\ [][NextReplay]_vars

\* ------------------------------------------- main() and the connection tasks
\* the state of the rooms and of the calls on them
roomVars == <<registry, history, bus, lock, pc, at, msg, handle, rx, lost, result,
              txLog, appended, serial, nextContent, budget, origin, seen, snapshot>>

\* main() before the first connection: nothing spawned, quit_tx not used yet
InitMain ==
    /\ main = "listening"
    /\ task = [s \in Sessions |-> "none"]
    /\ quit_tx = 0
    /\ quit_rx = [s \in Sessions |-> 0]

\* quit_rx.resubscribe(): a receiver of the values sent after this call
resubscribe == quit_tx + 1

\* Ok((socket, _)) = server.accept() =>
\*     join_set.spawn(handle_user_session(.., quit_rx.resubscribe(), socket))
MainAccept(s) ==
    /\ main = "listening"
    /\ task[s] = "none"
    /\ task' = [task EXCEPT ![s] = "running"]
    /\ quit_rx' = [quit_rx EXCEPT ![s] = resubscribe]
    /\ UNCHANGED <<main, quit_tx, roomVars>>

\* (mutation of MainAfterQuit: the break is left out)
MainAfterQuit_NoBreak == "listening"

\* break: main leaves the accept loop
MainAfterQuit == "draining"

\* Ok(_) = ctrl_c() => quit_tx.send(()).context(..).unwrap(); break
\* (the send cannot fail: main's own quit_rx is a live receiver)
MainCtrlC ==
    /\ main = "listening"
    /\ quit_tx' = quit_tx + 1
    /\ main' = MainAfterQuit
    /\ UNCHANGED <<task, quit_rx, roomVars>>

\* (mutation of JoinSetEmpty: main does not wait for the tasks)
JoinSetEmpty_NoWait == TRUE

\* join_set.join_next().await is None: every spawned task was taken out
JoinSetEmpty == \A s \in Sessions : task[s] \in {"none", "reaped"}

\* while join_set.join_next().await.is_some() {}: one finished task is taken out
MainJoinNext(s) ==
    /\ main = "draining"
    /\ task[s] = "finished"
    /\ task' = [task EXCEPT ![s] = "reaped"]
    /\ UNCHANGED <<main, quit_tx, quit_rx, roomVars>>

\* the loop ends, println!("Server shut down"), main returns: join_set is
\* dropped, and a JoinSet aborts the tasks it still holds when it is dropped
MainShutDown ==
    /\ main = "draining"
    /\ JoinSetEmpty
    /\ main' = "done"
    /\ task' = [s \in Sessions |->
                   IF task[s] \in {"running", "quitting"} THEN "aborted" ELSE task[s]]
    /\ UNCHANGED <<quit_tx, quit_rx, roomVars>>

\* session.rs is not among the sources; the connection task is modelled from
\* its contract: it polls its quit receiver at its loop, and on the signal, or
\* when its client disconnects, it leaves the loop, releases its subscription
\* and calls leave before it finishes.
QuitPending(s) == quit_rx[s] > 0 /\ quit_rx[s] <= quit_tx

TaskObserveQuit(s) ==
    /\ task[s] = "running"
    /\ pc[s] = "idle"
    /\ QuitPending(s)
    /\ task' = [task EXCEPT ![s] = "quitting"]
    /\ UNCHANGED <<main, quit_tx, quit_rx, roomVars>>

TaskDisconnect(s) ==
    /\ task[s] = "running"
    /\ pc[s] = "idle"
    /\ task' = [task EXCEPT ![s] = "quitting"]
    /\ UNCHANGED <<main, quit_tx, quit_rx, roomVars>>

TaskRelease(s) ==
    /\ task[s] = "quitting"
    /\ rx[s] # NoRx
    /\ rx' = [rx EXCEPT ![s] = NoRx]
    /\ seen' = [seen EXCEPT ![s] = <<>>]
    /\ UNCHANGED <<registry, history, bus, lock, pc, at, msg, handle, lost, result,
                   txLog, appended, serial, nextContent, budget, origin, snapshot,
                   srvVars>>

TaskLeave(s) == task[s] = "quitting" /\ Leave(s)

TaskExit(s) ==
    /\ task[s] = "quitting"
    /\ rx[s] = NoRx
    /\ handle[s] = NoRoom
    /\ task' = [task EXCEPT ![s] = "finished"]
    /\ UNCHANGED <<main, quit_tx, quit_rx, roomVars>>

\* a room call of a running task
Running(s) == task[s] = "running"

\* the connections main accepts: one of U1, one of U2
ServerSessions == {"S1", "S3"}

NextServer ==
    \/ \E s \in ServerSessions : MainAccept(s)
    \/ MainCtrlC
    \/ \E s \in ServerSessions : MainJoinNext(s)
    \/ MainShutDown
    \/ \E s \in ServerSessions : TaskObserveQuit(s)
    \/ \E s \in ServerSessions : TaskDisconnect(s)
    \/ \E s \in ServerSessions : TaskRelease(s)
    \/ \E s \in ServerSessions : TaskLeave(s)
    \/ \E s \in ServerSessions : TaskExit(s)
    \/ \E s \in ServerSessions : \E r \in JoinRooms[s] : Running(s) /\ JoinSubscribe(s, r)
    \/ \E s \in ServerSessions : JoinRegister(s)
    \/ \E s \in ServerSessions : Running(s) /\ HSendCall(s)
    \/ \E s \in ServerSessions : HSendLock(s)
    \/ \E s \in ServerSessions : HSendRecord(s)
    \/ \E s \in ServerSessions : HSendBroadcast(s)

InitServer ==
    /\ InitRoom
    /\ InitSessions
    /\ InitMain
    /\ budget = [calls |-> ServerCalls, records |-> 0]

\* the steps that need nothing from outside: a task that can go on, main
\* taking a finished task out of the JoinSet
ServerProgress ==
    \/ \E s \in Sessions : MainJoinNext(s)
    \/ MainShutDown
    \/ \E s \in Sessions :
           \/ TaskObserveQuit(s) \/ TaskRelease(s) \/ TaskLeave(s) \/ TaskExit(s)
           \/ JoinRegister(s) \/ HSendLock(s) \/ HSendRecord(s) \/ HSendBroadcast(s)

\* The tokio runtime runs a task that can take a step, and a free Mutex is
\* handed to a task that waits for it: as long as one of these steps is
\* possible, one is taken.  Nothing is assumed of ctrl_c, of the clients
\* (accept, disconnect) and of the calls a task starts.
FairServer == WF_vars(ServerProgress)

SpecServer == InitServer /\ [][NextServer]_vars /\ FairServer

\* ================================================================ claims
\* the step in which UserSessionHandle::send_message of s returns
HSendReturns(s) == pc[s] = "hsend_bcast" /\ pc'[s] = "idle"

\* C1: in every reachable state, whatever the interleaving of join, leave,
\* ChatRoom::send_message, record_message and UserSessionHandle::send_message,
\* the history of every room holds at most MAX_HISTORY = 10 messages.
C1_HistoryBounded == \A r \in Rooms : Len(get_history(r)) <= 10

\* a room whose history is full after an eviction
C1_Witness == \E r \in Rooms : Len(get_history(r)) = 10 /\ Len(appended[r]) > 10

\* C2: after N messages were appended to a room (by record_message, by
\* ChatRoom::send_message or by a handle), get_history() is exactly the last
\* min(N, 10) of them, oldest first, in the order in which they were appended.
C2_HistoryIsLastTen == \A r \in Rooms : get_history(r) = LastN(appended[r], 10)

\* m0..m10 were appended to room A in this order and the history is m1..m10
C2_Witness ==
    /\ Len(appended["A"]) = 11
    /\ \A i \in 1..11 : appended["A"][i].content = i - 1
    /\ Len(get_history("A")) = 10
    /\ \A i \in 1..10 : get_history("A")[i].content = i

\* C4 as stated: when UserSessionHandle::send_message returns, the message it
\* sent is in the room's history.
C4_Original ==
    [][\A s \in Sessions :
          HSendReturns(s) => Places(history'[at[s]], msg[s]) # {}]_vars

\* C4, amended: when UserSessionHandle::send_message returns, with Ok or with
\* Err, its message has been appended to the room's history, and it is still
\* in the history unless 10 or more messages were appended to the room after it.
C4_RecordedBeforeReturn ==
    [][\A s \in Sessions :
          HSendReturns(s) =>
              /\ Places(appended'[at[s]], msg[s]) # {}
              /\ \A p \in Places(appended'[at[s]], msg[s]) :
                     Len(appended'[at[s]]) - p < 10 => Places(history'[at[s]], msg[s]) # {}]_vars

\* a handle's send_message returned Err on room A, whose newest message is the sender's
C4_Witness ==
    \E s \in Sessions :
        /\ pc[s] = "idle" /\ result[s] = "Err" /\ handle[s] = "A"
        /\ history["A"] # <<>>
        /\ history["A"][Len(history["A"])].user_id = UserOf[s]

\* the sessions of user u that hold a handle of room r
Live(r, u) == {s \in Sessions : handle[s] = r /\ UserOf[s] = u}

\* the broadcast_tx.send calls of this step on room r
NewTx(r) == SubSeq(txLog'[r], Len(txLog[r]) + 1, Len(txLog'[r]))

\* the participation events of status st about user u among them
NewParticipation(r, u, st) ==
    {i \in DOMAIN NewTx(r) : NewTx(r)[i].ev = RoomParticipation(r, u, st)}

NoParticipation(r, u) ==
    NewParticipation(r, u, "Joined") = {} /\ NewParticipation(r, u, "Left") = {}

\* the steps in which join and leave of s return
JoinReturns(s) == pc[s] = "join_subscribed" /\ pc'[s] = "idle"
LeaveReturns(s) == handle[s] # NoRoom /\ handle'[s] = NoRoom

\* C3: a Joined event is handed to the bus exactly when a session joins whose
\* user has no other session in the room (once, by the first of two joins), a
\* Left event exactly when the last session of a user leaves (once), nothing
\* when one of two sessions leaves, and no other step sends a participation
\* event, whatever the other users do.
C3_JoinLeaveDedup ==
    [][\A r \in Rooms, u \in Users :
          /\ (\E s \in Live(r, u)' : s \notin Live(r, u)) =>
                 /\ Cardinality(NewParticipation(r, u, "Joined")) = (IF Live(r, u) = {} THEN 1 ELSE 0)
                 /\ NewParticipation(r, u, "Left") = {}
          /\ (\E s \in Live(r, u) : s \notin Live(r, u)') =>
                 /\ Cardinality(NewParticipation(r, u, "Left")) = (IF Live(r, u)' = {} THEN 1 ELSE 0)
                 /\ NewParticipation(r, u, "Joined") = {}
          /\ Live(r, u)' = Live(r, u) => NoParticipation(r, u)]_vars

\* S1 has joined room A and left it while S2, of the same user, stays: one
\* Joined and no Left were sent about U1
C3_Witness ==
    /\ handle["S1"] = NoRoom /\ result["S1"] = "Ok" /\ handle["S2"] = "A"
    /\ Cardinality(Places(txLog["A"], [ev |-> RoomParticipation("A", "U1", "Joined"), ok |-> TRUE])) = 1
    /\ \A i \in DOMAIN txLog["A"] : txLog["A"][i].ev # RoomParticipation("A", "U1", "Left")

\* the tasks inside a critical section of room r
Inside(r) == {s \in Sessions : at[s] = r /\ pc[s] \in {"join_subscribed", "hsend_locked"}}

\* C5: at most one task is inside an operation on a room, the one that holds
\* the room's mutex, and whenever the mutex is free the room's registry and
\* history are those of the operations run one at a time in the order in which
\* they acquired the mutex.
C5_TotalOrder ==
    \A r \in Rooms :
        /\ Cardinality(Inside(r)) <= 1
        /\ lock[r] = Inside(r)
        /\ lock[r] = {} => registry[r] = serial[r].reg /\ history[r] = serial[r].hist

\* S2 waits for the mutex of room A while S1 is inside the room
C5_Witness == lock["A"] = {"S1"} /\ pc["S2"] = "hsend_wait" /\ at["S2"] = "A"

\* a step of task s on room a
OnRoom(s, a) ==
    \/ JoinSubscribe(s, a) \/ SendMessage(s, a) \/ RecordMessage(s, a)
    \/ at[s] = a /\ (JoinRegister(s) \/ HSendLock(s) \/ HSendRecord(s) \/ HSendBroadcast(s))
    \/ handle[s] = a /\ (Leave(s) \/ HSendCall(s))

C6_Frame ==
    \A s \in Sessions, a \in Rooms :
        OnRoom(s, a) =>
            \A b \in Rooms \ {a} :
                UNCHANGED <<registry[b], history[b], bus[b], lock[b], txLog[b]>>

C6_NoWait ==
    \A s \in Sessions :
        /\ (pc[s] = "hsend_wait" /\ lock[at[s]] = {}) => ENABLED HSendLock(s)
        /\ (pc[s] = "idle" /\ handle[s] # NoRoom /\ lock[handle[s]] = {}) => ENABLED Leave(s)
        /\ \A r \in Rooms :
               (pc[s] = "idle" /\ handle[s] = NoRoom /\ rx[s] = NoRx /\ budget.calls > 0
                   /\ lock[r] = {}) => ENABLED JoinSubscribe(s, r)

\* C6: a step of an operation on room A leaves the registry, the history, the
\* bus and the mutex of every other room unchanged, and an operation that
\* needs room A's mutex can take it whenever that mutex is free, whoever holds
\* the mutex of another room.
C6_RoomIsolation == [][C6_Frame]_vars /\ []C6_NoWait

\* the mutexes of both rooms are held at once
C6_Witness == lock["A"] # {} /\ lock["B"] # {}

\* C7: a send never waits for a receiver; a receiver misses events only when
\* more than 100 are pending for it; a recv of a receiver with at most 100
\* pending takes the next event and loses none, and changes no other receiver.
C7_State ==
    \A s \in Sessions :
        /\ pc[s] = "hsend_bcast" => ENABLED HSendBroadcast(s)
        /\ Missed(s) > 0 => Pending(s) > 100

C7_Step ==
    \A s \in Sessions :
        (rx[s] # NoRx /\ rx'[s] # NoRx /\ rx'[s] # rx[s]) =>
            /\ Pending(s) <= 100 => rx'[s].next = rx[s].next + 1 /\ lost'[s] = lost[s]
            /\ \A t \in Sessions \ {s} : rx'[t] = rx[t] /\ lost'[t] = lost[t]
            /\ bus' = bus

C7_LaggingSubscriber == [][C7_Step]_vars /\ []C7_State

\* S2 never took an event and has missed some, S1 took the newest events and
\* lost none
C7_Witness ==
    /\ Missed("S2") > 0 /\ rx["S2"].next = 2
    /\ rx["S1"].room = "A" /\ lost["S1"] = 0 /\ Missed("S1") = 0
    /\ rx["S1"].next > Len(LagEvents) + 1

\* C8: when UserSessionHandle::send_message returns, it returns Err exactly
\* when the broadcast send failed (the bus took nothing) and Ok exactly when
\* the bus took the message; either way the message was appended to the
\* history before the send, and the registry, the history, the handles, the
\* receivers and every other session are as before the send.
C8_SendResult ==
    [][\A s \in Sessions :
          HSendReturns(s) =>
              /\ result'[s] = "Ok" <=> bus'[at[s]] = Append(bus[at[s]], UserMessage(msg[s]))
              /\ result'[s] = "Err" <=> bus' = bus
              /\ result'[s] = "Err" <=> ReceiverCount(at[s]) = 0
              /\ Places(appended[at[s]], msg[s]) # {}
              /\ UNCHANGED <<registry, history, handle, rx, lost, lock>>
              /\ \A t \in Sessions \ {s} : pc'[t] = pc[t] /\ result'[t] = result[t]]_vars

\* a session still registered in its room got Err from send_message
C8_Witness ==
    \E s \in Sessions :
        /\ pc[s] = "idle" /\ result[s] = "Err" /\ handle[s] # NoRoom
        /\ registry[handle[s]][UserOf[s]] >= 1
        /\ appended[handle[s]] # <<>>

\* a participation event of this step on room r that the bus did not take
FailedParticipation(r) ==
    \E i \in DOMAIN NewTx(r) : NewTx(r)[i].ev.kind = "RoomParticipation" /\ ~NewTx(r)[i].ok

C9_Step ==
    \A s \in Sessions :
        /\ JoinReturns(s) =>
              /\ result'[s] = "Ok"
              /\ handle'[s] = at[s] /\ rx'[s].room = at[s]
              /\ registry'[at[s]][UserOf[s]] = registry[at[s]][UserOf[s]] + 1
        /\ LeaveReturns(s) =>
              /\ result'[s] = "Ok"
              /\ registry'[handle[s]][UserOf[s]] = registry[handle[s]][UserOf[s]] - 1
        /\ \A r \in Rooms :
              FailedParticipation(r) =>
                  UNCHANGED <<bus, history, rx, lost, lock, pc, appended>>

C9_Enabled ==
    \A s \in Sessions :
        /\ pc[s] = "join_subscribed" => ENABLED JoinRegister(s)
        /\ (pc[s] = "idle" /\ handle[s] # NoRoom /\ lock[handle[s]] = {}) => ENABLED Leave(s)

\* C9: join, once it holds the room's mutex, always completes: it returns the
\* receiver and the handle and registers the session; leave always completes
\* and removes the session; neither fails when the participation event cannot
\* be delivered, and an undelivered participation event changes nothing else.
C9_JoinLeaveNeverFail == [][C9_Step]_vars /\ []C9_Enabled

\* the last session of a room has left and its Left event was not delivered
C9_Witness ==
    \E r \in Rooms, u \in Users :
        /\ registry[r][u] = 0
        /\ Places(txLog[r], [ev |-> RoomParticipation(r, u, "Left"), ok |-> FALSE]) # {}

\* C10: the session count of every user in every room is >= 0 and is the
\* number of handles join issued for the user and leave has not consumed, and
\* get_unique_user_ids() is the set of the users of these handles.
C10_RegistryCounts ==
    \A r \in Rooms :
        /\ \A u \in Users : registry[r][u] >= 0 /\ registry[r][u] = Cardinality(Live(r, u))
        /\ get_unique_user_ids(r) = {UserOf[s] : s \in {x \in Sessions : handle[x] = r}}

\* S1 and S2 of user U1 have joined room A: the unique user ids are {U1}
C10_Witness ==
    /\ handle["S1"] = "A" /\ handle["S2"] = "A"
    /\ registry["A"]["U1"] = 2
    /\ get_unique_user_ids("A") = {"U1"}

\* C11: main is done ("Server shut down" is printed) only when every task it
\* spawned has finished by itself and was taken out of the JoinSet; no task is
\* ever aborted; and, the tasks leaving on the quit signal, once the signal is
\* sent main eventually is done.
C11_Drained == main = "done" => \A s \in Sessions : task[s] \in {"none", "reaped"}

C11_NoAbort == \A s \in Sessions : task[s] # "aborted"

C11_ShutdownWaits == [](C11_Drained /\ C11_NoAbort) /\ ((quit_tx > 0) ~> (main = "done"))

\* the tasks of both connections were spawned, one of them was the last of its
\* user to leave a room, and main is done
C11_Witness ==
    /\ main = "done"
    /\ \A s \in ServerSessions : task[s] = "reaped"
    /\ \E r \in Rooms, u \in Users :
           \E i \in DOMAIN txLog[r] : txLog[r][i].ev = RoomParticipation(r, u, "Left")

C12_State ==
    /\ quit_tx <= 1
    /\ \A s \in Sessions :
           task[s] # "none" =>
               /\ quit_rx[s] = 1
               /\ quit_tx = 1 => quit_rx[s] <= quit_tx

C12_Step ==
    quit_tx > 0 =>
        /\ quit_tx' = quit_tx
        /\ \A s \in Sessions : task[s] = "none" => task'[s] = "none"
        /\ quit_rx' = quit_rx

\* C12: quit_tx.send is called at most once; the quit receiver of every task
\* main spawned was subscribed before the call, so that the signal is its
\* first value; and once the signal is sent, no task is spawned.
C12_QuitOnce == [][C12_Step]_vars /\ []C12_State

\* the signal is sent and pending for the tasks of both connections, which are
\* still running
C12_Witness ==
    /\ quit_tx = 1
    /\ \A s \in ServerSessions : task[s] = "running" /\ QuitPending(s)

\* the path of the call that made message m, and the task of a handle's call
PathOf(m) == origin[m.content + 1].via
SenderOf(m) == origin[m.content + 1].by

C13_State ==
    /\ \A s \in Sessions : pc[s] = "hsend_bcast" => \A r \in Rooms : s \notin lock[r]
    /\ \A r \in Rooms : \A i \in DOMAIN txLog[r] :
           (txLog[r][i].ev.kind = "UserMessage" /\ PathOf(txLog[r][i].ev.ev) = "handle")
               => Places(appended[r], txLog[r][i].ev.ev) # {}

C13_Step ==
    \A s \in Sessions :
        /\ (pc[s] = "hsend_wait" /\ pc'[s] # pc[s]) =>
               pc'[s] = "hsend_locked" /\ lock[at[s]] = {} /\ lock'[at[s]] = {s}
        /\ (pc[s] = "hsend_locked" /\ pc'[s] # pc[s]) =>
               /\ pc'[s] = "hsend_bcast"
               /\ appended'[at[s]] = Append(appended[at[s]], msg[s])
               /\ lock[at[s]] = {s} /\ lock'[at[s]] = {}
               /\ txLog' = txLog
        /\ (pc[s] = "hsend_bcast" /\ pc'[s] # pc[s]) =>
               /\ pc'[s] = "idle"
               /\ Len(txLog'[at[s]]) = Len(txLog[at[s]]) + 1
               /\ txLog'[at[s]][Len(txLog'[at[s]])].ev = UserMessage(msg[s])
               /\ Places(appended[at[s]], msg[s]) # {}
               /\ s \notin lock[at[s]] /\ lock' = lock

\* C13: UserSessionHandle::send_message goes through lock, record_message,
\* unlock, broadcast send, in this order: a task at the broadcast send holds no
\* room's mutex, and a message a handle hands to the bus was appended to the
\* history in an earlier step.
C13_SendOrder == [][C13_Step]_vars /\ []C13_State

\* S1 is at its broadcast send, its message recorded, while another task is
\* inside room A with the mutex
C13_Witness ==
    /\ pc["S1"] = "hsend_bcast" /\ at["S1"] = "A"
    /\ Places(history["A"], msg["S1"]) # {}
    /\ \E t \in Sessions \ {"S1"} : lock["A"] = {t}

C14_State ==
    \A s \in Sessions :
        /\ pc[s] = "join_subscribed" =>
               rx[s].room = at[s] /\ handle[s] = NoRoom /\ s \notin Live(at[s], UserOf[s])
        /\ (rx[s] # NoRx /\ lost[s] = 0) =>
               seen[s] = SubSeq(bus[rx[s].room], rx[s].next - Len(seen[s]), rx[s].next - 1)

C14_Step ==
    \A s \in Sessions :
        pc[s] = "join_subscribed" =>
            LET r == at[s]
                joined == RoomParticipation(r, UserOf[s], "Joined")
            IN  /\ rx'[s].room = r
                /\ \A i \in (Len(bus[r]) + 1)..Len(bus'[r]) : i >= rx'[s].next
                /\ (JoinReturns(s) /\ Live(r, UserOf[s]) = {}) =>
                       /\ bus'[r] = Append(bus[r], joined)
                       /\ Len(bus'[r]) >= rx'[s].next

\* C14: join subscribes before it registers and before it broadcasts: while a
\* task is inside join it holds the receiver and is not registered yet; every
\* event the bus takes from then on, its own Joined event included, is at or
\* after the receiver's position; and a receiver that lost nothing has taken
\* the events before its position one by one.
C14_SubscribeFirst == [][C14_Step]_vars /\ []C14_State

\* S3 subscribed after the first event of room A; a message was sent while it
\* was inside join; the message and its own Joined event are pending for it
C14_Witness ==
    /\ handle["S3"] = "A" /\ rx["S3"] = [room |-> "A", next |-> 2]
    /\ Len(bus["A"]) = 3
    /\ bus["A"][2].kind = "UserMessage"
    /\ bus["A"][3] = RoomParticipation("A", "U2", "Joined")

\* the UserMessage events among the broadcast_tx.send calls on room r, delivered or not
SentMessages(r) ==
    LET IsMessage(x) == x.ev.kind = "UserMessage"
        calls == SelectSeq(txLog[r], IsMessage)
    IN  [i \in DOMAIN calls |-> calls[i].ev.ev]

\* the messages of path via in a sequence of messages
OfPath(seq, via) ==
    LET Made(m) == PathOf(m) = via
    IN  SelectSeq(seq, Made)

\* a step of ChatRoom::send_message on room r: a message is handed to the bus
\* by a task that is in no call of a handle
RoomSends(r) ==
    /\ Len(txLog'[r]) = Len(txLog[r]) + 1
    /\ txLog'[r][Len(txLog'[r])].ev.kind = "UserMessage"
    /\ pc' = pc

C15_Step ==
    \A r \in Rooms :
        RoomSends(r) =>
            LET call == txLog'[r][Len(txLog'[r])]
                m == call.ev.ev
            IN  /\ appended'[r] = Append(appended[r], m)
                /\ history'[r] = LastN(Append(history[r], m), 10)
                /\ bus'[r] = IF call.ok THEN Append(bus[r], UserMessage(m)) ELSE bus[r]
                /\ lock[r] = {} /\ lock' = lock
                /\ UNCHANGED <<registry, result, handle, rx>>

C15_State ==
    \A r \in Rooms : OfPath(appended[r], "room") = OfPath(SentMessages(r), "room")

\* C15: ChatRoom::send_message appends its message to the history, evicting
\* the oldest entry over 10, and hands it to the bus in the same critical
\* section, whether the bus takes it or not; the messages of this path are in
\* the same order in the history as in the calls of the bus.
C15_RoomSendOrder == [][C15_Step]_vars /\ []C15_State

\* two messages of ChatRoom::send_message are in the history of room A in the
\* order of their sends, the second one appended with an eviction; the bus did
\* not take the first and took the second
C15_Witness ==
    /\ Len(OfPath(history["A"], "room")) = 2
    /\ Len(appended["A"]) > 10
    /\ PathOf(history["A"][10]) = "room"
    /\ Len(txLog["A"]) >= 2
    /\ txLog["A"][1] = [ev |-> UserMessage(OfPath(history["A"], "room")[1]), ok |-> FALSE]
    /\ \E i \in DOMAIN txLog["A"] :
           txLog["A"][i] = [ev |-> UserMessage(OfPath(history["A"], "room")[2]), ok |-> TRUE]

\* a step of record_message: called directly, or by a handle's send_message
RecordStep ==
    \/ origin' # origin /\ origin'[Len(origin')].via = "record"
    \/ \E s \in Sessions : pc[s] = "hsend_locked" /\ pc'[s] = "hsend_bcast"

\* a step of join or of leave
MembershipStep ==
    \E s \in Sessions :
        \/ pc[s] = "idle" /\ pc'[s] = "join_subscribed"
        \/ JoinReturns(s)
        \/ LeaveReturns(s)

\* a step of get_history or of get_unique_user_ids
GetterStep == \E s \in Sessions : snapshot'[s] # snapshot[s] /\ snapshot'[s] # NoSnapshot

C16_Step ==
    /\ RecordStep =>
           /\ UNCHANGED <<registry, bus, txLog, rx, handle, lost>>
           /\ \E r \in Rooms :
                  /\ Len(appended'[r]) = Len(appended[r]) + 1
                  /\ history'[r] = LastN(appended'[r], 10)
                  /\ \A q \in Rooms \ {r} : history'[q] = history[q]
    /\ MembershipStep => UNCHANGED <<history, appended>>
    /\ GetterStep =>
           /\ UNCHANGED <<registry, history, bus, txLog, lock, appended, rx, handle, lost>>
           /\ \A s \in Sessions :
                  snapshot'[s] # snapshot[s] =>
                      \/ snapshot'[s] = [snapshot[s] EXCEPT !.history = history[handle[s]]]
                      \/ snapshot'[s] = [snapshot[s] EXCEPT !.user_ids = UniqueUserIds(registry[handle[s]])]

\* C16: a step of record_message changes the history of its room and nothing
\* else of the rooms: no bus, no registry; a step of join or of leave changes
\* no history; get_history and get_unique_user_ids return the history and the
\* present users and change nothing of the rooms.
C16_Frames == [][C16_Step]_vars

\* S3 joined room A, a message was recorded directly, and S3 read the history
\* and the user ids: the message is in the history, no message is on the bus
C16_Witness ==
    /\ snapshot["S3"].user_ids = {"U1", "U2"}
    /\ snapshot["S3"].history = history["A"]
    /\ Len(history["A"]) = 1 /\ PathOf(history["A"][1]) = "record"
    /\ \A i \in DOMAIN txLog["A"] : txLog["A"][i].ev.kind = "RoomParticipation"

\* the messages of handles at places i < j of the history of room r are on the
\* bus in this order
SameOrderOnBus(r, i, j) ==
    \A p \in Places(bus[r], UserMessage(history[r][i])) :
        \A q \in Places(bus[r], UserMessage(history[r][j])) : p < q

HandlePairs(r) ==
    {ij \in (DOMAIN history[r]) \X (DOMAIN history[r]) :
        /\ ij[1] < ij[2]
        /\ PathOf(history[r][ij[1]]) = "handle"
        /\ PathOf(history[r][ij[2]]) = "handle"}

\* C17 as stated: two messages sent through handles of the same room are in
\* the same order in the room's history and on the bus (the order in which
\* every subscriber receives them).
C17_Original ==
    \A r \in Rooms : \A ij \in HandlePairs(r) : SameOrderOnBus(r, ij[1], ij[2])

\* C17, amended: two messages sent through the handle of one session, one call
\* after the other, are in the same order in the room's history and on the bus.
C17_SameSessionOrder ==
    \A r \in Rooms : \A ij \in HandlePairs(r) :
        SenderOf(history[r][ij[1]]) = SenderOf(history[r][ij[2]])
            => SameOrderOnBus(r, ij[1], ij[2])

\* S1 sent two messages through its handle; both are in the history and on the bus
C17_Witness ==
    \E ij \in HandlePairs("A") :
        /\ SenderOf(history["A"][ij[1]]) = "S1" /\ SenderOf(history["A"][ij[2]]) = "S1"
        /\ Places(bus["A"], UserMessage(history["A"][ij[1]])) # {}
        /\ Places(bus["A"], UserMessage(history["A"][ij[2]])) # {}

\* the statuses of the participation events about user u handed to the bus
\* of room r, delivered or not, in the order of the sends
ParticipationOf(r, u) ==
    LET About(x) == x.ev.kind = "RoomParticipation" /\ x.ev.ev.user_id = u
        calls == SelectSeq(txLog[r], About)
    IN  [i \in DOMAIN calls |-> calls[i].ev.ev.status]

\* C18: the participation events about a user in a room are Joined, Left,
\* Joined, ... in turn, and the user is among get_unique_user_ids() exactly
\* when the last of them is Joined.
C18_Alternation ==
    \A r \in Rooms, u \in Users :
        LET p == ParticipationOf(r, u)
        IN  /\ \A i \in DOMAIN p : p[i] = (IF i % 2 = 1 THEN "Joined" ELSE "Left")
            /\ u \in get_unique_user_ids(r) <=> (p # <<>> /\ p[Len(p)] = "Joined")

\* U1 joined room A with two sessions, left with both, and joined again
C18_Witness ==
    /\ ParticipationOf("A", "U1") = <<"Joined", "Left", "Joined">>
    /\ result["S1"] = "Ok" /\ result["S2"] = "Ok"
    /\ get_unique_user_ids("A") = {"U1"}

\* the messages of handles of other sessions than s
OfOthers(s) ==
    {c \in DOMAIN origin : origin[c].via = "handle" /\ origin[c].by # s}

\* how many times message number c is in the snapshot s took, and among the
\* events s took from its receiver
InSnapshot(s, c) ==
    Cardinality({i \in DOMAIN snapshot[s].history : snapshot[s].history[i].content = c - 1})

InSeen(s, c) ==
    Cardinality({i \in DOMAIN seen[s] :
                    seen[s][i].kind = "UserMessage" /\ seen[s][i].ev.content = c - 1})

\* C19 as stated: a session that joined and took the history snapshot gets a
\* message of another session's handle at most once, the snapshot and the
\* subscription taken together.
C19_Original ==
    \A s \in Sessions : \A c \in OfOthers(s) : InSnapshot(s, c) + InSeen(s, c) <= 1

\* C19, amended: it gets the message at most once in the snapshot and at most
\* once from the subscription.
C19_OnceEach ==
    \A s \in Sessions : \A c \in OfOthers(s) : InSnapshot(s, c) <= 1 /\ InSeen(s, c) <= 1

\* S3 joined room A and has a message of S1's handle both in its snapshot and
\* from its receiver
C19_Witness ==
    \E c \in OfOthers("S3") :
        /\ origin[c].by = "S1"
        /\ InSnapshot("S3", c) = 1
        /\ InSeen("S3", c) = 1

\* the rooms whose mutex task s holds
Held(s) == {r \in Rooms : s \in lock[r]}

C20_State ==
    \A s \in Sessions :
        /\ Cardinality(Held(s)) <= 1
        /\ \A r \in Held(s) : at[s] = r /\ pc[s] \in {"join_subscribed", "hsend_locked"}
        /\ pc[s] \in {"idle", "hsend_wait", "hsend_bcast"} => Held(s) = {}

\* C20: a task holds at most one mutex, the one of the room its call is on,
\* and none when it waits for a mutex, sends on the bus or has returned; every
\* mutex that is held is released; every call of join and of a handle's
\* send_message that has begun returns; and the leave of a task that finishes
\* returns.
C20_Terminates ==
    /\ []C20_State
    /\ \A r \in Rooms : (lock[r] # {}) ~> (lock[r] = {})
    /\ \A s \in Sessions : (pc[s] # "idle") ~> (pc[s] = "idle")
    /\ \A s \in Sessions :
           (task[s] = "quitting" /\ handle[s] # NoRoom) ~> (handle[s] = NoRoom)

\* S1 waits for the mutex of room A in send_message while S3 holds it in join
C20_Witness ==
    /\ pc["S1"] = "hsend_wait" /\ at["S1"] = "A"
    /\ lock["A"] = {"S3"} /\ pc["S3"] = "join_subscribed"

====
